---- MODULE Spec2Model ----
(***************************************************************************)
(* Model of nup_validator.validate_nup (src/nup_validator.py).             *)
(*                                                                         *)
(* A Python str is a sequence of one-character tokens.  Every character is *)
(* a one-character TLA+ string, except the non-ASCII decimal digit         *)
(* ARABIC-INDIC DIGIT THREE, written "U+0663", which Python's \d and int() *)
(* both accept.  The function is modelled twice from the same helpers: as  *)
(* the operator validate_nup(s) giving the outcome of a call, and as a     *)
(* state machine that runs one call statement block by statement block.    *)
(***************************************************************************)
EXTENDS Integers, Sequences, FiniteSets, TLC

\* ------------------------------------------------------------------------
\* Python primitives used by the function
\* ------------------------------------------------------------------------

\* a string literal as a sequence of characters
Chars(s) == [i \in 1..Len(s) |-> SubSeq(s, i, i)]

AsciiDigits == Chars("0123456789")

ArabicIndicThree == "U+0663"

\* characters with the Unicode property Decimal (within the model's alphabet)
IsDecimal(c) == (\E d \in 1..10 : AsciiDigits[d] = c) \/ c = ArabicIndicThree

DecimalValue(c) ==
    IF c = ArabicIndicThree THEN 3
    ELSE (CHOOSE d \in 1..10 : AsciiDigits[d] = c) - 1

IsSpace(c) == c = "\n"

\* s[:-n]
DropLast(s, n) == IF Len(s) <= n THEN <<>> ELSE SubSeq(s, 1, Len(s) - n)

\* s[-n:]
TakeLast(s, n) == IF Len(s) <= n THEN s ELSE SubSeq(s, Len(s) - n + 1, Len(s))

\* s[::-1]
Reverse(s) == [i \in 1..Len(s) |-> s[Len(s) + 1 - i]]

\* c in s
Contains(s, c) == \E i \in 1..Len(s) : s[i] = c

\* s.replace(c, "")
RECURSIVE Remove(_, _)
Remove(s, c) ==
    IF s = <<>> THEN <<>>
    ELSE IF Head(s) = c THEN Remove(Tail(s), c)
    ELSE <<Head(s)>> \o Remove(Tail(s), c)

\* s.split(c) for a one-character separator c
RECURSIVE Split(_, _)
Split(s, c) ==
    IF ~Contains(s, c) THEN <<s>>
    ELSE LET i == CHOOSE k \in 1..Len(s) :
                      s[k] = c /\ \A j \in 1..(k - 1) : s[j] # c
         IN  <<SubSeq(s, 1, i - 1)>> \o Split(SubSeq(s, i + 1, Len(s)), c)

\* str.strip() as int() applies it before parsing
RECURSIVE LStrip(_)
LStrip(s) == IF s # <<>> /\ IsSpace(Head(s)) THEN LStrip(Tail(s)) ELSE s

Strip(s) == Reverse(LStrip(Reverse(LStrip(s))))

Unsigned(s) == IF s # <<>> /\ Head(s) = "-" THEN Tail(s) ELSE s

\* int(s) does not raise ValueError
IntParses(s) ==
    LET u == Unsigned(Strip(s))
    IN  u # <<>> /\ \A i \in 1..Len(u) : IsDecimal(u[i])

RECURSIVE DecimalNumber(_)
DecimalNumber(u) ==
    IF u = <<>> THEN 0
    ELSE 10 * DecimalNumber(DropLast(u, 1)) + DecimalValue(u[Len(u)])

\* int(s), for s with IntParses(s)
IntValue(s) ==
    LET t == Strip(s)
    IN  IF t # <<>> /\ Head(t) = "-" THEN 0 - DecimalNumber(Tail(t))
        ELSE DecimalNumber(t)

\* str(n) for n >= 0
RECURSIVE Str(_)
Str(n) == IF n < 10 THEN <<AsciiDigits[n + 1]>>
          ELSE Str(n \div 10) \o <<AsciiDigits[(n % 10) + 1]>>

\* list(range(a, b))
Range(a, b) == [i \in 1..(b - a) |-> a + i - 1]

Min(a, b) == IF a <= b THEN a ELSE b

\* the number of pairs zip(a, b) yields
ZipLen(a, b) == Min(Len(a), Len(b))

\* ------------------------------------------------------------------------
\* The pieces of validate_nup
\* ------------------------------------------------------------------------

\* the sentinel compared in the wrong case
IsSentinelLowerCase(number) == number = Chars("s/n")

\* number == "S/N"
IsSentinel(number) == number = Chars("S/N")

\* any(char in number for char in [".", "/", "-"])
HasSeparator(number) ==
    \E c \in {".", "/", "-"} : Contains(number, c)

\* the guard with the length of the whole prefix plus one as its threshold
PrefixShorterThan13(number) ==
    Contains(number, "/") /\ Len(Split(number, "/")[1]) < 13

\* "/" in number and len(number.split("/")[0]) < 11
PrefixTooShort(number) ==
    Contains(number, "/") /\ Len(Split(number, "/")[1]) < 11

\* a character class that only excludes the separators and the line break
ReNotSeparator(c) == c \notin {".", "/", "-", "\n"}

\* \d of a str pattern: any Unicode decimal digit
ReDigit(c) == IsDecimal(c)

\* the period left unescaped: any character but a line break
ReAnyChar(c) == c # "\n"

\* \. of the pattern
ReDot(c) == c = "."

\* ^\d{5}\.\d{6}/(\d{4}|\d{2})-\d{2} matched against the first n characters
PatternMatches(number, n) ==
    \E y \in {4, 2} :
        /\ n = 16 + y
        /\ n <= Len(number)
        /\ \A i \in 1..5 : ReDigit(number[i])
        /\ ReDot(number[6])
        /\ \A i \in 7..12 : ReDigit(number[i])
        /\ number[13] = "/"
        /\ \A i \in 14..(13 + y) : ReDigit(number[i])
        /\ number[14 + y] = "-"
        /\ ReDigit(number[15 + y])
        /\ ReDigit(number[16 + y])

\* nup_format.match(number): $ matches at the end of the string and also
\* just before a line break that ends the string
nup_format_match(number) ==
    \/ PatternMatches(number, Len(number))
    \/ /\ Len(number) >= 1
       /\ number[Len(number)] = "\n"
       /\ PatternMatches(number, Len(number) - 1)

\* number.replace(".", "").replace("/", "").replace("-", "")[:-2]
RemoveSeparators(number) ==
    DropLast(Remove(Remove(Remove(number, "."), "/"), "-"), 2)

\* number.split("/")[1].split("-")[0], for a number that contains "/"
YearToken(number) == Split(Split(number, "/")[2], "-")[1]

\* the year compared with < instead of <=
IsBefore1999(year) == Len(year) = 4 /\ IntValue(year) < 1999

\* len(nup_year) == 4 and int(nup_year) <= 1999, for a year that parses
IsLegacyYear(year) == Len(year) = 4 /\ IntValue(year) <= 1999

\* nup_treaty[:-4] + nup_year[-2:] when the year is a legacy year
AbbreviateYear(treaty, year) ==
    IF IsLegacyYear(year) THEN DropLast(treaty, 4) \o TakeLast(year, 2)
    ELSE treaty

\* one weight too few
weights_2_to_15 == Range(2, 16)

weights_dv1 == Range(2, 17)

\* weights that start at 1
weights_1_to_16 == Range(1, 17)

weights_dv2 == Range(2, 18)

\* every int(digit) of the generator over zip(digits, weights) succeeds
ZipParses(digits, weights) ==
    \A i \in 1..ZipLen(digits, weights) : IntParses(<<digits[i]>>)

RECURSIVE SumFirst(_, _, _)
SumFirst(digits, weights, n) ==
    IF n = 0 THEN 0
    ELSE SumFirst(digits, weights, n - 1)
           + IntValue(<<digits[n]>>) * weights[n]

\* sum(int(digit) * weight for digit, weight in zip(digits, weights))
WeightedSum(digits, weights) ==
    SumFirst(digits, weights, ZipLen(digits, weights))

\* the rule without the replacement of a result >= 10 by 0
Modulo11Unclamped(weighted_sum) ==
    LET remainder == weighted_sum % 11
    IN  IF remainder = 0 THEN 1 ELSE 11 - remainder

\* remainder 0 gives 1, otherwise 11 - remainder; a result >= 10 gives 0
Modulo11Digit(weighted_sum) ==
    LET remainder == weighted_sum % 11
        candidate == IF remainder = 0 THEN 1 ELSE 11 - remainder
    IN  IF candidate >= 10 THEN 0 ELSE candidate

\* ------------------------------------------------------------------------
\* validate_nup as a function: the outcome of validate_nup(number) is
\* "True", "False", or the name of the exception that leaves the call
\* ------------------------------------------------------------------------
ChecksumOutcome(number, dv1, dv2, nup_treaty) ==
    LET nup_inverted == Reverse(nup_treaty)
    IN  IF ~ZipParses(nup_inverted, weights_dv1) THEN "ValueError"
        ELSE
        LET dv1_result == Modulo11Digit(WeightedSum(nup_inverted, weights_dv1))
            with_dv1   == Str(dv1_result) \o nup_inverted
        IN  IF dv1_result # dv1 THEN "False"
            ELSE IF ~ZipParses(with_dv1, weights_dv2) THEN "ValueError"
            ELSE IF Modulo11Digit(WeightedSum(with_dv1, weights_dv2)) # dv2
                 THEN "False"
            ELSE "True"

AfterFormat(number) ==
    IF Len(number) < 2 THEN "IndexError"
    ELSE IF ~IntParses(<<number[Len(number) - 1]>>)
            \/ ~IntParses(<<number[Len(number)]>>) THEN "False"
    ELSE IF ~Contains(number, "/") THEN "IndexError"
    ELSE LET nup_year == YearToken(number)
         IN  IF Len(nup_year) = 4 /\ ~IntParses(nup_year) THEN "ValueError"
             ELSE ChecksumOutcome(number,
                      IntValue(<<number[Len(number) - 1]>>),
                      IntValue(<<number[Len(number)]>>),
                      AbbreviateYear(RemoveSeparators(number), nup_year))

validate_nup(number) ==
    IF IsSentinel(number) THEN "True"
    ELSE IF ~HasSeparator(number) THEN "False"
    ELSE IF PrefixTooShort(number) THEN "False"
    ELSE IF ~nup_format_match(number) THEN "False"
    ELSE AfterFormat(number)

\* ------------------------------------------------------------------------
\* The strings validate_nup is called with
\* ------------------------------------------------------------------------

\* longest string of the exhaustive family
MaxLen == 3

\* number of generated unit codes and of generated sequence numbers
MaxUnit == 2

MaxSeq == 2

Alphabet == {"0", "1", "9", ".", "/", "-", "S", "N", "\n", ArabicIndicThree}

\* every string over Alphabet of at most MaxLen characters
ShortStrings == UNION {[1..n -> Alphabet] : n \in 0..MaxLen}

\* str(n).zfill(w)
ZFill(n, w) ==
    LET s == Str(n) IN [i \in 1..(w - Len(s)) |-> "0"] \o s

Units ==
    {Chars("12345"), Chars("35041"), Chars("00000")}
        \cup {ZFill((k * 27183) % 100000, 5) : k \in 1..MaxUnit}

Seqs ==
    {Chars("678901"), Chars("000387")}
        \cup {ZFill((k * 314159) % 1000000, 6) : k \in 1..MaxSeq}

LongYears ==
    {Chars("2023"), Chars("2000"), Chars("1999"), Chars("1998"),
     Chars("1900"), Chars("0000"), Chars("0023"), Chars("9999")}

ShortYears == {Chars("23"), Chars("00"), Chars("99"), Chars("98")}

Bodies ==
    {u \o <<".">> \o s \o <<"/">> \o y :
        u \in Units, s \in Seqs, y \in LongYears \cup ShortYears}

DigitPairs == {<<AsciiDigits[a], AsciiDigits[b]>> : a, b \in 1..10}

\* every body with every pair of check digits
WellFormed == {b \o <<"-">> \o dd : b \in Bodies, dd \in DigitPairs}

\* the strings of the tests and of the docstring of validate_nup
Examples ==
    {Chars("12345.678901/2023-94"), Chars("35041.000387/2000-19"),
     Chars("S/N"), Chars("12345678901202342"),
     Chars("12345-678901/2023-42"), Chars("12345.678901/2023-99"),
     Chars("12345678901"), Chars("123.678901/2023-42"),
     Chars("12345.678901/2023-42"), Chars("12345.678901/1999-42")}

Valid ==
    {Chars("12345.678901/2023-94"), Chars("35041.000387/2000-19"),
     Chars("12345.678901/1999-11"), Chars("12345.678901/99-11")}

Substitutes == {".", "/", "-", "S", "\n", ArabicIndicThree, "0"}

\* a valid identifier with one character deleted, replaced or inserted
Damaged ==
    UNION {
        {SubSeq(v, 1, i - 1) \o SubSeq(v, i + 1, Len(v)) : i \in 1..Len(v)}
        \cup {[v EXCEPT ![i] = c] : i \in 1..Len(v), c \in Substitutes}
        \cup {SubSeq(v, 1, i) \o <<c>> \o SubSeq(v, i + 1, Len(v)) :
                 i \in 0..Len(v), c \in Substitutes}
        : v \in Valid \cup {Chars("S/N")} }

Inputs == ShortStrings \cup WellFormed \cup Examples \cup Damaged

\* ------------------------------------------------------------------------
\* One call of validate_nup, statement block by statement block
\* ------------------------------------------------------------------------
VARIABLES number, pc, dv1, dv2, nup_treaty, nup_year, nup_inverted,
          dv1_result, dv2_result, ret, exc

vars == <<number, pc, dv1, dv2, nup_treaty, nup_year, nup_inverted,
          dv1_result, dv2_result, ret, exc>>

\* locals are unbound at entry: -1 for the integers, <<>> for the strings
Init ==
    /\ number \in Inputs
    /\ pc = "sentinel"
    /\ dv1 = -1 /\ dv2 = -1
    /\ nup_treaty = <<>> /\ nup_year = <<>> /\ nup_inverted = <<>>
    /\ dv1_result = -1 /\ dv2_result = -1
    /\ ret = "None"
    /\ exc = "None"

Return(value) == pc' = "return" /\ ret' = value /\ exc' = exc

Raise(error) == pc' = "raise" /\ exc' = error /\ ret' = ret

Goto(label) == pc' = label /\ ret' = ret /\ exc' = exc

\* if number == "S/N": return True
CheckSentinel ==
    /\ pc = "sentinel"
    /\ IF IsSentinel(number) THEN Return("True") ELSE Goto("separators")
    /\ UNCHANGED <<number, dv1, dv2, nup_treaty, nup_year, nup_inverted,
                   dv1_result, dv2_result>>

\* if not any(...): return False
CheckSeparators ==
    /\ pc = "separators"
    /\ IF ~HasSeparator(number) THEN Return("False") ELSE Goto("prefix")
    /\ UNCHANGED <<number, dv1, dv2, nup_treaty, nup_year, nup_inverted,
                   dv1_result, dv2_result>>

\* if "/" in number and len(number.split("/")[0]) < 11: return False
CheckPrefix ==
    /\ pc = "prefix"
    /\ IF PrefixTooShort(number) THEN Return("False") ELSE Goto("format")
    /\ UNCHANGED <<number, dv1, dv2, nup_treaty, nup_year, nup_inverted,
                   dv1_result, dv2_result>>

\* if not nup_format.match(number): return False
CheckFormat ==
    /\ pc = "format"
    /\ IF ~nup_format_match(number) THEN Return("False") ELSE Goto("extract")
    /\ UNCHANGED <<number, dv1, dv2, nup_treaty, nup_year, nup_inverted,
                   dv1_result, dv2_result>>

\* try: dv1 = int(number[-2]); dv2 = int(number[-1])
\* except ValueError: return False
ExtractDV ==
    /\ pc = "extract"
    /\ IF Len(number) < 2
       THEN Raise("IndexError") /\ UNCHANGED <<dv1, dv2>>
       ELSE IF ~IntParses(<<number[Len(number) - 1]>>)
       THEN Return("False") /\ UNCHANGED <<dv1, dv2>>
       ELSE IF ~IntParses(<<number[Len(number)]>>)
       THEN /\ Return("False")
            /\ dv1' = IntValue(<<number[Len(number) - 1]>>)
            /\ dv2' = dv2
       ELSE /\ Goto("treaty")
            /\ dv1' = IntValue(<<number[Len(number) - 1]>>)
            /\ dv2' = IntValue(<<number[Len(number)]>>)
    /\ UNCHANGED <<number, nup_treaty, nup_year, nup_inverted,
                   dv1_result, dv2_result>>

\* nup_treaty = number.replace(...)...[:-2]
StripSeparators ==
    /\ pc = "treaty"
    /\ nup_treaty' = RemoveSeparators(number)
    /\ Goto("year")
    /\ UNCHANGED <<number, dv1, dv2, nup_year, nup_inverted,
                   dv1_result, dv2_result>>

\* nup_year = ...; if len(nup_year) == 4 and int(nup_year) <= 1999: ...
NormalizeYear ==
    /\ pc = "year"
    /\ IF ~Contains(number, "/")
       THEN Raise("IndexError") /\ UNCHANGED <<nup_year, nup_treaty>>
       ELSE /\ nup_year' = YearToken(number)
            /\ IF Len(YearToken(number)) = 4 /\ ~IntParses(YearToken(number))
               THEN Raise("ValueError") /\ UNCHANGED nup_treaty
               ELSE /\ nup_treaty' = AbbreviateYear(nup_treaty, YearToken(number))
                    /\ Goto("dv1")
    /\ UNCHANGED <<number, dv1, dv2, nup_inverted, dv1_result, dv2_result>>

\* the first check digit, and if dv1_result != dv1: return False
ComputeDV1 ==
    /\ pc = "dv1"
    /\ nup_inverted' = Reverse(nup_treaty)
    /\ IF ~ZipParses(Reverse(nup_treaty), weights_dv1)
       THEN Raise("ValueError") /\ UNCHANGED dv1_result
       ELSE /\ dv1_result' =
                   Modulo11Digit(WeightedSum(Reverse(nup_treaty), weights_dv1))
            /\ IF dv1_result' # dv1 THEN Return("False") ELSE Goto("dv2")
    /\ UNCHANGED <<number, dv1, dv2, nup_treaty, nup_year, dv2_result>>

\* the second check digit, and the final verdict
ComputeDV2 ==
    /\ pc = "dv2"
    /\ LET nup_inverted_with_dv1 == Str(dv1_result) \o nup_inverted
       IN  IF ~ZipParses(nup_inverted_with_dv1, weights_dv2)
           THEN Raise("ValueError") /\ UNCHANGED dv2_result
           ELSE /\ dv2_result' =
                       Modulo11Digit(
                           WeightedSum(nup_inverted_with_dv1, weights_dv2))
                /\ IF dv2_result' # dv2 THEN Return("False")
                   ELSE Return("True")
    /\ UNCHANGED <<number, dv1, dv2, nup_treaty, nup_year, nup_inverted,
                   dv1_result>>

Next ==
    \/ CheckSentinel
    \/ CheckSeparators
    \/ CheckPrefix
    \/ CheckFormat
    \/ ExtractDV
    \/ StripSeparators
    \/ NormalizeYear
    \/ ComputeDV1
    \/ ComputeDV2

Spec == Init /\ [][Next]_vars

\* the state machine and the function agree on every finished call
StepsAgree ==
    /\ pc = "return" => ret = validate_nup(number)
    /\ pc = "raise" => exc = validate_nup(number)

\* ------------------------------------------------------------------------
\* Properties
\* ------------------------------------------------------------------------

Finished == pc \in {"return", "raise"}

\* the whole of s is NNNNN.NNNNNN/AAAA-DD or NNNNN.NNNNNN/AA-DD
IsIdentifier(s) ==
    /\ Len(s) \in {18, 20}
    /\ \A i \in 1..Len(s) :
           IF i = 6 THEN s[i] = "."
           ELSE IF i = 13 THEN s[i] = "/"
           ELSE IF i = Len(s) - 2 THEN s[i] = "-"
           ELSE IsDecimal(s[i])

YearOf(s) == SubSeq(s, 14, Len(s) - 3)

\* the identifier s with its four-digit year written with two digits
ShortForm(s) == SubSeq(s, 1, 13) \o SubSeq(s, 16, 20)

EndsWithLineBreak(s) == Len(s) >= 1 /\ s[Len(s)] = "\n"

\* C1: every call ends by returning True or False; no exception leaves it,
\* neither from the check-digit parse nor from the year parse
C1_Total ==
    /\ pc # "raise"
    /\ exc = "None"
    /\ pc = "return" => ret \in {"True", "False"}
    /\ pc \in {"sentinel", "separators", "prefix", "format", "extract",
               "treaty", "year", "dv1", "dv2", "return"}
    /\ pc = "sentinel" => validate_nup(number) \in {"True", "False"}

\* a string with a line break at its end got past the format check and the
\* call returned
C1_Witness ==
    /\ pc = "return"
    /\ EndsWithLineBreak(number)
    /\ nup_format_match(number)
    /\ ret = "False"

\* the payload of an identifier as the claim describes it: unit code,
\* sequence number and year, a four-digit year <= 1999 by its last two digits
RefPayload(s) ==
    LET y == YearOf(s)
    IN  SubSeq(s, 1, 5) \o SubSeq(s, 7, 12)
          \o (IF Len(y) = 4 /\ DecimalNumber(y) <= 1999
              THEN SubSeq(y, 3, 4) ELSE y)

\* digits weighted w, w + 1, w + 2, ... without end
RECURSIVE RefSum(_, _)
RefSum(digits, w) ==
    IF digits = <<>> THEN 0
    ELSE DecimalValue(Head(digits)) * w + RefSum(Tail(digits), w + 1)

RefCandidate(sum) ==
    CASE sum % 11 = 0 -> 1
      [] sum % 11 = 1 -> 0
      [] OTHER        -> 11 - (sum % 11)

expected_dv1(s) == RefCandidate(RefSum(Reverse(RefPayload(s)), 2))

expected_dv2(s) ==
    RefCandidate(
        RefSum(<<AsciiDigits[expected_dv1(s) + 1]>> \o Reverse(RefPayload(s)), 2))

\* C2: an identifier of the right form is accepted exactly when its last two
\* digits are the two modulo-11 check digits of its year-normalized payload;
\* the two identifiers of the tests are accepted
C2_CheckDigitsDecide ==
    (Finished /\ IsIdentifier(number)) =>
        /\ ret = "True" <=>
              /\ DecimalValue(number[Len(number) - 1]) = expected_dv1(number)
              /\ DecimalValue(number[Len(number)]) = expected_dv2(number)
        /\ number \in {Chars("12345.678901/2023-94"),
                       Chars("35041.000387/2000-19")} => ret = "True"

C2_Witness ==
    /\ pc = "return"
    /\ number = Chars("35041.000387/2000-19")
    /\ dv2_result = 9
    /\ ret = "True"

IsAsciiIdentifier(s) ==
    /\ IsIdentifier(s)
    /\ \A i \in 1..Len(s) : s[i] # ArabicIndicThree

\* C4: of the 100 identifiers that share a body, exactly one is accepted and
\* the 99 others return False (stated once per body, at the call that
\* carries the suffix 00)
C4_ExactlyOneSuffix ==
    (pc = "return" /\ IsAsciiIdentifier(number)
       /\ TakeLast(number, 2) = <<"0", "0">>) =>
        LET body == DropLast(number, 2)
        IN  /\ Cardinality({dd \in DigitPairs :
                               validate_nup(body \o dd) = "True"}) = 1
            /\ \A dd \in DigitPairs :
                   validate_nup(body \o dd) \in {"True", "False"}

C4_Witness ==
    /\ pc = "return"
    /\ number = Chars("12345.678901/2023-00")
    /\ ret = "False"
    /\ validate_nup(Chars("12345.678901/2023-94")) = "True"

\* C5: an identifier with a four-digit year <= 1999 gets the verdict of the
\* same identifier with the year written with two digits, both checked
\* against the same 13-digit payload; a year >= 2000 keeps its four digits
C5_LegacyYearEquivalence ==
    (pc = "return" /\ IsIdentifier(number) /\ Len(number) = 20) =>
        IF DecimalNumber(YearOf(number)) <= 1999
        THEN /\ ret = validate_nup(ShortForm(number))
             /\ Len(nup_treaty) = 13
             /\ nup_treaty = RemoveSeparators(ShortForm(number))
        ELSE /\ Len(nup_treaty) = 15
             /\ TakeLast(nup_treaty, 4) = YearOf(number)

C5_Witness ==
    /\ pc = "return"
    /\ number = Chars("12345.678901/1999-11")
    /\ nup_treaty = Chars("1234567890199")
    /\ ret = "True"

\* C6: the call with "S/N" returns True straight from the sentinel test,
\* although the prefix guard and the format check would reject it; a string
\* that only resembles "S/N" is not accepted
C6_Sentinel ==
    /\ number = Chars("S/N") =>
           /\ pc \in {"sentinel", "return"}
           /\ pc = "return" => ret = "True"
           /\ PrefixTooShort(number)
           /\ ~nup_format_match(number)
    /\ (Finished /\ number # Chars("S/N")
          /\ (Contains(number, "S") \/ Contains(number, "N"))) =>
           ret = "False"

C6_Witness ==
    /\ number = Chars("S/N")
    /\ pc = "return"
    /\ ret = "True"

\* C7: the four examples of the docstring evaluate as documented
C7_DocstringExamples ==
    pc = "return" =>
        /\ number = Chars("12345.678901/2023-42") => ret = "True"
        /\ number = Chars("12345.678901/1999-42") => ret = "True"
        /\ number = Chars("S/N") => ret = "True"
        /\ number = Chars("12345678901") => ret = "False"

\* C8: once the format check has passed, the last two characters both parse
\* as decimal digits, so the except branch is never taken
C8_ParseNeverFails ==
    pc = "extract" =>
        /\ IntParses(<<number[Len(number) - 1]>>)
        /\ IntParses(<<number[Len(number)]>>)

\* validate_nup without the separator pre-check and the prefix-length guard
WithoutGuards(s) ==
    IF IsSentinel(s) THEN "True"
    ELSE IF ~nup_format_match(s) THEN "False"
    ELSE AfterFormat(s)

\* C9 as stated: a string that matches the format has a separator and
\* exactly 11 characters before its first slash, and every call returns what
\* the function without the two guards returns
C9_AsStated ==
    /\ (pc = "extract" /\ nup_format_match(number)) =>
           /\ HasSeparator(number)
           /\ Len(Split(number, "/")[1]) = 11
    /\ Finished =>
           (IF pc = "return" THEN ret ELSE exc) = WithoutGuards(number)

\* C9: the two guards never change the verdict: a string that matches the
\* format has a separator and exactly 12 characters before its first slash,
\* which the guard "shorter than 11" lets through, and every call returns
\* what the function without the two guards returns
C9_GuardsRedundant ==
    /\ nup_format_match(number) =>
           /\ HasSeparator(number)
           /\ Len(Split(number, "/")[1]) = 12
           /\ ~PrefixTooShort(number)
    /\ Finished =>
           (IF pc = "return" THEN ret ELSE exc) = WithoutGuards(number)

\* the prefix guard rejected a string
C9_Witness ==
    /\ pc = "return"
    /\ number = Chars("123.678901/2023-42")
    /\ PrefixTooShort(number)
    /\ ret = "False"

\* C10: the payload has at most 15 digits and, with the single digit
\* expected_dv1 in front, at most 16, so neither zip drops a digit
C10_WeightsSuffice ==
    /\ pc \in {"dv1", "dv2"} =>
           /\ Len(nup_treaty) <= 15
           /\ ZipLen(Reverse(nup_treaty), weights_dv1) = Len(nup_treaty)
    /\ pc = "dv2" =>
           /\ dv1_result \in 0..9
           /\ Len(Str(dv1_result)) = 1
           /\ Len(Str(dv1_result) \o nup_inverted) <= 16
           /\ ZipLen(Str(dv1_result) \o nup_inverted, weights_dv2)
                  = Len(nup_inverted) + 1

C10_Witness ==
    /\ pc = "dv2"
    /\ Len(nup_treaty) = 15
    /\ Len(Str(dv1_result) \o nup_inverted) = 16

====
